---- MODULE Spec2Model ----
(***************************************************************************)
(* A model of status.py, the slideshow of the statusboard: the main loop   *)
(* (rotation of the two slides, the per-source refresh cadences, the       *)
(* hourly full refresh), safe_fetch, the MVV adapter with its lazily       *)
(* created browser session, push_frame and the shutdown path.              *)
(*                                                                         *)
(* Time is time.monotonic() in whole seconds.  Python's None is the empty  *)
(* tuple and a present value v is <<v>>; a Python string is the sequence   *)
(* of its characters.                                                      *)
(***************************************************************************)
EXTENDS Integers, Sequences, FiniteSets, TLC

VARIABLES
    MVV_HTML,       \* the stripped setting (a string)
    pace,           \* TRUE: no operation takes time and sleep(1) takes 1 s
    t0,             \* time.monotonic() when main starts
    clock,          \* time.monotonic()
    pc,             \* the statement main is at
    now,            \* main's local `now`
    slide, slide_started,
    last_weather, last_rain, last_mvv, last_full,
    weather_data, weather_err, rain_eta, rain_err, weather_error,
    mvv_state,      \* the adapter's dict
    epd_mode,       \* the display hardware: "off", "full", "partial", "asleep"
    live,           \* the browsers started and not quit
    started,        \* how many browsers webdriver.Chrome() has started
    ev,             \* what the current tick (or the start-up) has done so far
    sf_call,        \* the last call of safe_fetch: what the fetcher did, what came back
    last_ok,        \* per data source, the value its last successful fetch returned
    rain_call,      \* a call of fetch_rain_eta: the forecast, time.time(), the return
    fetched_at,     \* per source, the time of its last attempted fetch
    toggled,        \* the slide has toggled at least once
    quit_calls, sleep_calls,   \* calls of driver.quit() and epd.sleep()
    had_driver,     \* mvv_state held a driver when the finally block started
    ticks, slow     \* loop iterations started; operations that took time

vars == << MVV_HTML, pace, t0, clock, pc, now, slide, slide_started,
           last_weather, last_rain, last_mvv, last_full,
           weather_data, weather_err, rain_eta, rain_err, weather_error,
           mvv_state, epd_mode, live, started, ev, sf_call, last_ok, fetched_at,
           toggled, quit_calls, sleep_calls, had_driver, ticks, slow, rain_call >>

----------------------------------------------------------------------------
(* Bounds of the model *)

\* seconds of loop time explored when the loop keeps pace
MaxTime == 310
\* loop iterations explored when operations take time
MaxTicks == 3
\* operations that take time in one run
MaxSlow == 2
\* browsers started in one run
MaxDrivers == 3
\* buckets in a forecast handed to fetch_rain_eta
MaxBuckets == 3

----------------------------------------------------------------------------
(* Constants of status.py *)

SLIDE_INTERVAL == 60
WX_REFRESH == 15 * 60
RAIN_REFRESH == 5 * 60
MVV_REFRESH == 120
FULL_REFRESH == 60 * 60
RELOAD_INTERVAL == 600

None == << >>
Some(v) == << v >>
\* Python's truth value of an optional string: None and "" are false
Truthy(x) == x # None /\ x[1] # << >>
\* Python's `a or b`
Or(a, b) == IF Truthy(a) THEN a ELSE b

NotConfigured == <<"n", "c">>     \* "MVV Monitor nicht konfiguriert"
MvvPrefix == <<"M", "V", "V", ":", " ">>

----------------------------------------------------------------------------
(* str.splitlines() over the characters the model uses: "\n" and "\r" end  *)
(* a line, "\r\n" ends one line, and no empty last line is produced.       *)

IsBreak(c) == c \in {"\n", "\r"}

RECURSIVE SplitFrom(_, _, _, _)
SplitFrom(s, i, cur, acc) ==
    IF i > Len(s)
    THEN IF cur = << >> THEN acc ELSE Append(acc, cur)
    ELSE IF IsBreak(s[i])
         THEN LET j == IF s[i] = "\r" /\ i < Len(s) /\ s[i + 1] = "\n"
                       THEN i + 2 ELSE i + 1
              IN  SplitFrom(s, j, << >>, Append(acc, cur))
         ELSE SplitFrom(s, i + 1, Append(cur, s[i]), acc)

splitlines(s) == SplitFrom(s, 1, << >>, << >>)

----------------------------------------------------------------------------
(* What a tick does is recorded in ev as a sequence of events *)

EvFetch(src) == [op |-> "fetch", src |-> src]
EvToggle(to, elapsed, again) ==
    [op |-> "toggle", to |-> to, elapsed |-> elapsed, again |-> again]
EvAdapter(img, err) == [op |-> "adapter", img |-> img, err |-> err]

----------------------------------------------------------------------------
(* safe_fetch: the fetcher either returns a value or raises Exception(msg) *)

\* messages a fetcher's exception carries: the empty one, one of two lines
ExcMsgs == { << >>, <<"a", "\n", "b">> }

FetchOutcomes(values) ==
    {[kind |-> "ok", val |-> v] : v \in values}
        \cup {[kind |-> "exc", msg |-> m] : m \in ExcMsgs}

\* fetch_current_weather returns a dict, or raises: also with a message whose
\* first line is empty; fetch_rain_eta returns minutes or None, or raises
WeatherOutcomes ==
    FetchOutcomes({Some(1)}) \cup {[kind |-> "exc", msg |-> <<"\n", "b">>]}
RainOutcomes == FetchOutcomes({Some(15)})

\* lines[0]: an IndexError on the empty list
FirstLine(lines) ==
    IF Len(lines) = 0
    THEN [kind |-> "raise", exc |-> "IndexError"]
    ELSE [kind |-> "ret", val |-> lines[1]]

safe_fetch(r) ==
    IF r.kind = "ok"
    THEN [kind |-> "ret", val |-> r.val, err |-> None]
    ELSE LET first == FirstLine(splitlines(r.msg))
         IN  IF first.kind = "raise"
             THEN [kind |-> "raise", exc |-> first.exc]
             ELSE [kind |-> "ret", val |-> None, err |-> Some(first.val)]

----------------------------------------------------------------------------
(* fetch_rain_eta, lines 197-209, as a function of the forecast the API     *)
(* returned (the lists "time" and "precipitation" of minutely_15) and of   *)
(* time.time().  Times are seconds, amounts tenths of a millimetre.        *)

\* RAIN_THRESHOLD_MM = 0.1, in tenths of a millimetre
RAIN_THRESHOLD_MM == 1

Min(a, b) == IF a < b THEN a ELSE b
Max(a, b) == IF a > b THEN a ELSE b

\* int(round(seconds / 60)): Python rounds a half to the even neighbour
RoundMinutes(seconds) ==
    LET q == seconds \div 60
        r == seconds % 60
    IN  IF r < 30 THEN q
        ELSE IF r > 30 THEN q + 1
        ELSE IF q % 2 = 0 THEN q ELSE q + 1

\* the loop of lines 202-208 over zip(times, prec), from pair i on: the
\* index of the pair it returns at, 0 when it runs to the end
RECURSIVE FirstWet(_, _, _, _)
FirstWet(times, prec, i, threshold) ==
    IF i > Min(Len(times), Len(prec)) THEN 0
    ELSE IF prec[i] = None THEN FirstWet(times, prec, i + 1, threshold)
    ELSE IF prec[i][1] >= threshold THEN i
    ELSE FirstWet(times, prec, i + 1, threshold)

fetch_rain_eta(times, prec, wall, threshold) ==
    LET i == FirstWet(times, prec, 1, threshold)
    IN  IF i = 0 THEN None
        ELSE Some(Max(RoundMinutes(times[i] - wall), 0))

----------------------------------------------------------------------------
(* push_frame and the renderers.  pf is what the display driver does:      *)
(* "ok", or "exc" when epd.display / epd.display_Partial raises.           *)

PushOutcomes == {"ok", "exc"}

push_frame_no_init_part(mode, full, pf) ==
    IF full
    THEN [hw |-> <<"init", "display">>, mode |-> "full", ok |-> pf = "ok"]
    ELSE [hw |-> <<"display_Partial">>, mode |-> mode, ok |-> pf = "ok"]

push_frame(mode, full, pf) ==
    IF full
    THEN IF pf = "ok"
         THEN [hw |-> <<"init", "display", "init_part">>, mode |-> "partial", ok |-> TRUE]
         ELSE [hw |-> <<"init", "display">>, mode |-> "full", ok |-> FALSE]
    ELSE [hw |-> <<"display_Partial">>, mode |-> mode, ok |-> pf = "ok"]

\* a push as an event: what was drawn, the refresh mode, the progress drawn
\* (the seconds into the slide, the numerator of the fraction), the error
\* text drawn, the display calls made, the hardware mode they met
EvPush(what, full, progress, error, p, before) ==
    [op |-> "push", what |-> what, full |-> full, progress |-> progress,
     error |-> error, hw |-> p.hw, before |-> before, done |-> p.ok]

update_progress_full(mode, started_at, tnow, pf) ==
    LET p == push_frame(mode, TRUE, pf)
    IN  [ev |-> << EvPush("progress", TRUE, tnow - started_at, None, p, mode) >>,
         mode |-> p.mode, ok |-> p.ok]

update_progress(mode, started_at, tnow, pf) ==
    LET p == push_frame(mode, FALSE, pf)
    IN  [ev |-> << EvPush("progress", FALSE, tnow - started_at, None, p, mode) >>,
         mode |-> p.mode, ok |-> p.ok]

render_weather(mode, weather, rain, error, progress, full, pf) ==
    LET p == push_frame(mode, full, pf)
    IN  [ev |-> << EvPush("weather", full, progress, error, p, mode) >>,
         mode |-> p.mode, ok |-> p.ok]
----------------------------------------------------------------------------
(* The MVV adapter.  Its state is a dict: a function whose domain is the   *)
(* set of keys present.                                                    *)

Get(state, key, default) == IF key \in DOMAIN state THEN state[key] ELSE default
Put(state, key, val) == (key :> val) @@ state

\* `not MVV_HTML`
Unconfigured_never(html) == FALSE
Unconfigured(html) == html = << >>

\* str.strip() of the setting, whose whitespace is " "
RECURSIVE strip(_)
strip(s) ==
    IF s = << >> THEN s
    ELSE IF Head(s) = " " THEN strip(Tail(s))
    ELSE IF s[Len(s)] = " " THEN strip(SubSeq(s, 1, Len(s) - 1))
    ELSE s

\* What starting the browser does: webdriver.Chrome() raises ("no_chrome",
\* no browser runs); the browser runs and set_page_load_timeout or
\* driver.get raises something other than TimeoutException ("get_failed");
\* driver.get raises TimeoutException ("timeout"); all goes well ("ok").
InitOutcomes == {"no_chrome", "get_failed", "timeout", "ok"}
\* what a re-navigation and a screenshot do
NavOutcomes == {"ok", "timeout", "fail"}
GrabOutcomes == {"ok", "fail"}
\* messages of the adapter's exceptions
MvvMsgs == { <<"x", "\n", "y">> }

AdapterInputs ==
    [init : InitOutcomes, nav : NavOutcomes, grab : GrabOutcomes, msg : MvvMsgs]

\* f"MVV: {exc}".splitlines()[0]
MvvError(msg) == FirstLine(splitlines(MvvPrefix \o msg)).val

init_browser(html, inp, lv, st) ==
    IF Unconfigured(html)
    THEN [kind |-> "raise", msg |-> <<"n", "o">>, live |-> lv, started |-> st,
          ev |-> << EvFetch("session") >>]
    ELSE IF inp.init = "no_chrome"
    THEN [kind |-> "raise", msg |-> inp.msg, live |-> lv, started |-> st,
          ev |-> << EvFetch("session") >>]
    ELSE LET driver == st + 1
             run == lv \cup {driver}
             sev == << EvFetch("session"), EvFetch("navigate") >>
         IN  IF inp.init = "get_failed"
             THEN [kind |-> "raise", msg |-> inp.msg, live |-> run,
                   started |-> driver, ev |-> sev]
             ELSE [kind |-> "ret", driver |-> driver, live |-> run,
                   started |-> driver, ev |-> sev]

Grab_advances(state, tnow, inp, navev) ==
    [state |-> Put(Put(state, "last_shot", tnow), "err",
                   IF inp.grab = "fail" THEN Some(MvvError(inp.msg)) ELSE None),
     ev |-> navev \o << EvFetch("capture") >>]

\* lines 297-303: the screenshot, after the re-navigation (if any) is done
Grab(state, tnow, inp, navev) ==
    IF inp.grab = "fail"
    THEN [state |-> Put(state, "err", Some(MvvError(inp.msg))),
          ev |-> navev \o << EvFetch("capture") >>]
    ELSE [state |-> Put(Put(Put(state, "png_path", "png"), "last_shot", tnow),
                        "err", None),
          ev |-> navev \o << EvFetch("capture") >>]

\* lines 287-303: the re-navigation when reload says so, then the screenshot
Shoot(state, tnow, inp, reload) ==
    IF reload
    THEN IF inp.nav = "fail"
         THEN [state |-> Put(state, "err", Some(MvvError(inp.msg))),
               ev |-> << EvFetch("navigate") >>]
         ELSE Grab(Put(state, "last_reload", tnow), tnow, inp,
                   << EvFetch("navigate") >>)
    ELSE Grab(state, tnow, inp, << >>)

\* lines 286-303: the snapshot, taken when the adapter's own guard says so
Snapshot(state, tnow, inp) ==
    IF tnow - Get(state, "last_shot", 0) > MVV_REFRESH
    THEN Shoot(state, tnow, inp,
               tnow - Get(state, "last_reload", 0) > RELOAD_INTERVAL)
    ELSE [state |-> state, ev |-> << >>]

\* lines 305-317: the canvas drawn from the state
Canvas(state) ==
    IF "png_path" \in DOMAIN state THEN "snapshot"
    ELSE IF Truthy(Get(state, "err", None)) THEN "error text"
    ELSE "unavailable"

\* lines 305-317: what the adapter returns once the snapshot step is over
Drawn(shot, before, lv, st) ==
    [state |-> shot.state, img |-> Canvas(shot.state),
     err |-> Get(shot.state, "err", None),
     ev |-> before \o shot.ev
               \o << EvAdapter(Canvas(shot.state), Get(shot.state, "err", None)) >>,
     live |-> lv, started |-> st]

\* lines 278-284: no driver in the state; ib is what init_browser did
Create(ib, state, tnow, inp) ==
    IF ib.kind = "raise"
    THEN [state |-> Put(state, "err", Some(MvvError(ib.msg))), img |-> "blank",
          err |-> Some(MvvError(ib.msg)),
          ev |-> ib.ev \o << EvAdapter("blank", Some(MvvError(ib.msg))) >>,
          live |-> ib.live, started |-> ib.started]
    ELSE Drawn(Snapshot(Put(Put(Put(state, "driver", ib.driver),
                                "html_path", "html"), "last_reload", 0),
                        tnow, inp),
               ib.ev, ib.live, ib.started)

get_mvv_image_cached(html, state, tnow, inp, lv, st) ==
    IF Unconfigured(html)
    THEN [state |-> Put(state, "err", Some(NotConfigured)),
          img |-> "placeholder", err |-> Some(NotConfigured),
          ev |-> << EvAdapter("placeholder", Some(NotConfigured)) >>,
          live |-> lv, started |-> st]
    ELSE IF "driver" \notin DOMAIN state
    THEN Create(init_browser(html, inp, lv, st), state, tnow, inp)
    ELSE Drawn(Snapshot(state, tnow, inp), << >>, lv, st)

\* lines 428-432: the push of the adapter's image
Pushed(a, p, mode, progress, full) ==
    [state |-> a.state, live |-> a.live, started |-> a.started, err |-> a.err,
     ev |-> a.ev \o << EvPush("mvv", full, progress, a.err, p, mode) >>,
     mode |-> p.mode, ok |-> p.ok]

render_mvv(mode, html, state, tnow, inp, lv, st, progress, full, pf) ==
    Pushed(get_mvv_image_cached(html, state, tnow, inp, lv, st),
           push_frame(mode, full, pf), mode, progress, full)

----------------------------------------------------------------------------
(* The program: main *)

cfgv == << MVV_HTML, pace, t0 >>
schedv == << slide, slide_started, last_weather, last_rain, last_mvv, last_full >>
cachev == << weather_data, weather_err, rain_eta, rain_err, weather_error, last_ok >>
browserv == << mvv_state, live, started >>
endv == << quit_calls, sleep_calls, had_driver >>

\* local_settings.MVV_HTML as written by the user
RawSettings == { << >>, <<" ">>, <<" ", "x", " ">> }
\* time.monotonic() at the start of main: shortly after boot, or later
Uptimes == {30, 5000}
\* how long an operation of the loop that takes time takes: a second, or (a
\* hung call, a stopped process) a whole FULL_REFRESH.  The operations of
\* the start-up are given no duration: it would only shift t0.
Lat == {1, FULL_REFRESH}

Delays == IF pace \/ slow >= MaxSlow THEN {0} ELSE {0} \cup Lat

\* the operation of this step took d seconds
Elapse(d) ==
    /\ clock' = clock + d
    /\ slow' = IF d > 0 THEN slow + 1 ELSE slow

NoCall == [fetcher |-> [kind |-> "none"], result |-> [kind |-> "none"]]

\* the record of the values fetched: a fetcher that returned v makes v the
\* last value of its source, one that raised leaves the record alone
Fetched(rec, src, r) ==
    IF r.kind = "ok" THEN [rec EXCEPT ![src] = Some(r.val)] ELSE rec

\* no call of fetch_rain_eta is being looked at
NoForecast == [times |-> << >>, prec |-> << >>, wall |-> 0, done |-> FALSE, eta |-> None]

\* main's variables before its first statement
Fresh ==
    /\ clock = t0
    /\ now = 0
    /\ slide = "weather"
    /\ slide_started = 0
    /\ last_weather = 0 /\ last_rain = 0 /\ last_mvv = 0 /\ last_full = 0
    /\ weather_data = None /\ weather_err = None
    /\ rain_eta = None /\ rain_err = None /\ weather_error = None
    /\ mvv_state = << >>
    /\ epd_mode = "off"
    /\ live = {}
    /\ started = 0
    /\ ev = << >>
    /\ sf_call = NoCall
    /\ last_ok = [weather |-> None, rain |-> None]
    /\ fetched_at = [src \in {"weather", "rain", "session", "navigate", "capture"}
                         |-> None]
    /\ toggled = FALSE
    /\ quit_calls = 0 /\ sleep_calls = 0 /\ had_driver = FALSE
    /\ ticks = 0 /\ slow = 0

Init ==
    /\ MVV_HTML \in {strip(raw) : raw \in RawSettings}
    /\ pace \in BOOLEAN
    /\ t0 \in Uptimes
    /\ pc = "init_display"
    /\ rain_call = NoForecast
    /\ Fresh

\* lines 451-456: epd.init(), epd.Clear(), epd.init_part(), or SystemExit
InitDisplay ==
    /\ pc = "init_display"
    /\ \E o \in PushOutcomes :
          IF o = "ok"
          THEN /\ epd_mode' = "partial"
               /\ pc' = "init_weather"
          ELSE /\ epd_mode' = epd_mode
               /\ pc' = "exit"
    /\ UNCHANGED << cfgv, rain_call, clock, now, schedv, cachev, browserv,
                    ev, sf_call,
                    fetched_at, toggled, endv, ticks, slow >>

\* line 458
InitWeather ==
    /\ pc = "init_weather"
    /\ \E r \in WeatherOutcomes :
          LET res == safe_fetch(r)
          IN  /\ sf_call' = [fetcher |-> r, result |-> res]
              /\ last_ok' = Fetched(last_ok, "weather", r)
              /\ fetched_at' = [fetched_at EXCEPT !["weather"] = Some(clock)]
              /\ ev' = Append(ev, EvFetch("weather"))
              /\ IF res.kind = "ret"
                 THEN /\ weather_data' = res.val
                      /\ weather_err' = res.err
                      /\ pc' = "init_rain"
                 ELSE /\ UNCHANGED << weather_data, weather_err >>
                      /\ pc' = "crashed"
    /\ UNCHANGED << cfgv, rain_call, clock, now, schedv, rain_eta, rain_err,
                    weather_error,
                    browserv, epd_mode, toggled, endv, ticks, slow >>

\* lines 459-460
InitRain ==
    /\ pc = "init_rain"
    /\ \E r \in RainOutcomes :
          LET res == safe_fetch(r)
          IN  /\ sf_call' = [fetcher |-> r, result |-> res]
              /\ last_ok' = Fetched(last_ok, "rain", r)
              /\ fetched_at' = [fetched_at EXCEPT !["rain"] = Some(clock)]
              /\ ev' = Append(ev, EvFetch("rain"))
              /\ IF res.kind = "ret"
                 THEN /\ rain_eta' = res.val
                      /\ rain_err' = res.err
                      /\ weather_error' = Or(weather_err, res.err)
                      /\ pc' = "init_render"
                 ELSE /\ UNCHANGED << rain_eta, rain_err, weather_error >>
                      /\ pc' = "crashed"
    /\ UNCHANGED << cfgv, rain_call, clock, now, schedv, weather_data,
                    weather_err,
                    browserv, epd_mode, toggled, endv, ticks, slow >>

\* lines 462-471: the first render, then the loop's state
InitRender ==
    /\ pc = "init_render"
    /\ \E pf \in PushOutcomes :
          LET r == render_weather(epd_mode, weather_data, rain_eta,
                                  weather_error, 0, TRUE, pf)
          IN  /\ ev' = ev \o r.ev
              /\ epd_mode' = r.mode
              /\ IF r.ok
                 THEN /\ mvv_state' = << >>
                      /\ slide' = "weather"
                      /\ now' = clock
                      /\ slide_started' = clock
                      /\ last_weather' = clock
                      /\ last_rain' = clock
                      /\ last_mvv' = clock
                      /\ last_full' = clock
                      /\ pc' = "loop_top"
                 ELSE /\ UNCHANGED << mvv_state, now, schedv >>
                      /\ pc' = "crashed"
    /\ UNCHANGED << cfgv, rain_call, clock, cachev, live, started, sf_call,
                    fetched_at,
                    toggled, endv, ticks, slow >>

\* a KeyboardInterrupt before the try block of line 473 is entered
InitInterrupt ==
    /\ pc \in {"init_weather", "init_rain", "init_render"}
    /\ pc' = "crashed"
    /\ UNCHANGED << cfgv, rain_call, clock, now, schedv, cachev, browserv,
                    epd_mode, ev,
                    sf_call, fetched_at, toggled, endv, ticks, slow >>
----------------------------------------------------------------------------
(* The loop of lines 474-513, one action per statement group *)

RotationDue(n, started_at) == n - started_at >= SLIDE_INTERVAL
Toggle(s) == IF s = "weather" THEN "mvv" ELSE "weather"
\* the `full` argument of the render that follows a toggle (lines 483, 485)
RotateFull(s) == s = "weather"
WeatherDue_any(s, n, last) == n - last >= WX_REFRESH
WeatherDue(s, n, last) == s = "weather" /\ n - last >= WX_REFRESH
RainDue(s, n, last) == s = "weather" /\ n - last >= RAIN_REFRESH
MvvDue(s, n, last) == s = "mvv" /\ n - last >= MVV_REFRESH
FullDue(n, last) == n - last >= FULL_REFRESH
\* the slide the full refresh renders (lines 507-510)
FullRefreshSlide_weather(s) == "weather"
FullRefreshSlide(s) == s

\* what the browser and the page do in a call of the adapter; a browser is
\* started only while the model's bound allows one more
Inputs(s) ==
    IF s = "weather" \/ Unconfigured(MVV_HTML)
    THEN {[init |-> "ok", nav |-> "ok", grab |-> "ok", msg |-> << >>]}
    ELSE {i \in AdapterInputs : started < MaxDrivers \/ i.init = "no_chrome"}

Stamp(f, events, t) ==
    [src \in DOMAIN f |->
        IF \E i \in DOMAIN events :
               events[i].op = "fetch" /\ events[i].src = src
        THEN Some(t) ELSE f[src]]

\* render_weather or render_mvv, as line 482 and line 507 choose
RenderSlide(s, progress, full, inp, pf) ==
    IF s = "weather"
    THEN [state |-> mvv_state, live |-> live, started |-> started]
            @@ render_weather(epd_mode, weather_data, rain_eta, weather_error,
                              progress, full, pf)
    ELSE render_mvv(epd_mode, MVV_HTML, mvv_state, clock, inp, live, started,
                    progress, full, pf)

\* what a render of a slide leaves behind: the adapter's state, the browsers,
\* the events, the display's mode
Rendered(r) ==
    /\ mvv_state' = r.state
    /\ live' = r.live
    /\ started' = r.started
    /\ ev' = ev \o r.ev
    /\ fetched_at' = Stamp(fetched_at, r.ev, clock)
    /\ epd_mode' = r.mode

\* the loop goes on while the model's bounds allow
Within == IF pace THEN clock - t0 < MaxTime ELSE ticks < MaxTicks

\* lines 475-477
LoopTop ==
    /\ pc = "loop_top"
    /\ Within
    /\ \E pf \in PushOutcomes, d \in Delays :
          LET r == update_progress(epd_mode, slide_started, clock, pf)
          IN  /\ now' = clock
              /\ ev' = r.ev
              /\ epd_mode' = r.mode
              /\ Elapse(d)
              /\ pc' = IF r.ok THEN "rotate" ELSE "finally"
    /\ ticks' = ticks + 1
    /\ UNCHANGED << cfgv, rain_call, schedv, cachev, browserv, sf_call,
                    fetched_at,
                    toggled, endv >>

\* lines 479-481
RotateToggle ==
    /\ pc = "rotate"
    /\ IF RotationDue(now, slide_started)
       THEN /\ slide' = Toggle(slide)
            /\ slide_started' = now
            /\ toggled' = TRUE
            /\ ev' = Append(ev, EvToggle(Toggle(slide), now - slide_started, toggled))
            /\ pc' = "rotate_render"
       ELSE /\ UNCHANGED << slide, slide_started, toggled, ev >>
            /\ pc' = "wx"
    /\ UNCHANGED << cfgv, rain_call, clock, now, last_weather, last_rain,
                    last_mvv, last_full,
                    cachev, browserv, epd_mode, sf_call, fetched_at, endv,
                    ticks, slow >>

\* lines 482-485
RotateRender ==
    /\ pc = "rotate_render"
    /\ \E inp \in Inputs(slide), pf \in PushOutcomes, d \in Delays :
          \E r \in {RenderSlide(slide, 0, RotateFull(slide), inp, pf)} :
              /\ Rendered(r)
              /\ Elapse(d)
              /\ pc' = IF r.ok THEN "wx" ELSE "finally"
    /\ UNCHANGED << cfgv, rain_call, now, schedv, cachev, sf_call, toggled,
                    endv, ticks >>

\* lines 487-492
RefreshWeather ==
    /\ pc = "wx"
    /\ IF WeatherDue(slide, now, last_weather)
       THEN \E o \in WeatherOutcomes, pf \in PushOutcomes, d \in Delays :
              LET res == safe_fetch(o)
              IN  /\ sf_call' = [fetcher |-> o, result |-> res]
                  /\ last_ok' = Fetched(last_ok, "weather", o)
                  /\ fetched_at' = [fetched_at EXCEPT !["weather"] = Some(clock)]
                  /\ Elapse(d)
                  /\ IF res.kind = "raise"
                     THEN /\ ev' = Append(ev, EvFetch("weather"))
                          /\ UNCHANGED << weather_data, weather_err, weather_error,
                                          last_weather, epd_mode >>
                          /\ pc' = "finally"
                     ELSE LET r == render_weather(epd_mode, res.val, rain_eta,
                                       Or(res.err, rain_err),
                                       now - slide_started, FALSE, pf)
                          IN  /\ weather_data' = res.val
                              /\ weather_err' = res.err
                              /\ weather_error' = Or(res.err, rain_err)
                              /\ ev' = Append(ev, EvFetch("weather")) \o r.ev
                              /\ epd_mode' = r.mode
                              /\ last_weather' = IF r.ok THEN now ELSE last_weather
                              /\ pc' = IF r.ok THEN "rain" ELSE "finally"
       ELSE /\ pc' = "rain"
            /\ UNCHANGED << clock, slow, sf_call, last_ok, fetched_at, ev,
                            weather_data, weather_err, weather_error, last_weather,
                            epd_mode >>
    /\ UNCHANGED << cfgv, rain_call, now, slide, slide_started, last_rain,
                    last_mvv, last_full,
                    rain_eta, rain_err, browserv, toggled, endv, ticks >>

\* lines 494-499
RefreshRain ==
    /\ pc = "rain"
    /\ IF RainDue(slide, now, last_rain)
       THEN \E o \in RainOutcomes, pf \in PushOutcomes, d \in Delays :
              LET res == safe_fetch(o)
              IN  /\ sf_call' = [fetcher |-> o, result |-> res]
                  /\ last_ok' = Fetched(last_ok, "rain", o)
                  /\ fetched_at' = [fetched_at EXCEPT !["rain"] = Some(clock)]
                  /\ Elapse(d)
                  /\ IF res.kind = "raise"
                     THEN /\ ev' = Append(ev, EvFetch("rain"))
                          /\ UNCHANGED << rain_eta, rain_err, weather_error,
                                          last_rain, epd_mode >>
                          /\ pc' = "finally"
                     ELSE LET r == render_weather(epd_mode, weather_data, res.val,
                                       Or(weather_err, res.err),
                                       now - slide_started, FALSE, pf)
                          IN  /\ rain_eta' = res.val
                              /\ rain_err' = res.err
                              /\ weather_error' = Or(weather_err, res.err)
                              /\ ev' = Append(ev, EvFetch("rain")) \o r.ev
                              /\ epd_mode' = r.mode
                              /\ last_rain' = IF r.ok THEN now ELSE last_rain
                              /\ pc' = IF r.ok THEN "mvv" ELSE "finally"
       ELSE /\ pc' = "mvv"
            /\ UNCHANGED << clock, slow, sf_call, last_ok, fetched_at, ev,
                            rain_eta, rain_err, weather_error, last_rain, epd_mode >>
    /\ UNCHANGED << cfgv, rain_call, now, slide, slide_started, last_weather,
                    last_mvv,
                    last_full, weather_data, weather_err, browserv, toggled,
                    endv, ticks >>

\* lines 501-504
RefreshMvv ==
    /\ pc = "mvv"
    /\ IF MvvDue(slide, now, last_mvv)
       THEN \E inp \in Inputs(slide), pf \in PushOutcomes, d \in Delays :
              \E r \in {render_mvv(epd_mode, MVV_HTML, mvv_state, clock, inp, live,
                                     started, now - slide_started, FALSE, pf)} :
                  /\ Rendered(r)
                  /\ Elapse(d)
                  /\ last_mvv' = IF r.ok THEN now ELSE last_mvv
                  /\ pc' = IF r.ok THEN "full" ELSE "finally"
       ELSE /\ pc' = "full"
            /\ UNCHANGED << browserv, ev, fetched_at, epd_mode, clock, slow,
                            last_mvv >>
    /\ UNCHANGED << cfgv, rain_call, now, slide, slide_started, last_weather,
                    last_rain,
                    last_full, cachev, sf_call, toggled, endv, ticks >>

\* lines 506-511
FullRefresh ==
    /\ pc = "full"
    /\ IF FullDue(now, last_full)
       THEN \E inp \in Inputs(FullRefreshSlide(slide)), pf \in PushOutcomes,
               d \in Delays :
              \E r \in {RenderSlide(FullRefreshSlide(slide), now - slide_started,
                                      TRUE, inp, pf)} :
                  /\ Rendered(r)
                  /\ Elapse(d)
                  /\ last_full' = IF r.ok THEN now ELSE last_full
                  /\ pc' = IF r.ok THEN "sleep" ELSE "finally"
       ELSE /\ pc' = "sleep"
            /\ UNCHANGED << browserv, ev, fetched_at, epd_mode, clock, slow,
                            last_full >>
    /\ UNCHANGED << cfgv, rain_call, now, slide, slide_started, last_weather,
                    last_rain,
                    last_mvv, cachev, sf_call, toggled, endv, ticks >>

\* line 513: time.sleep(1) returns after one second, or later
Sleep ==
    /\ pc = "sleep"
    /\ \E d \in Delays :
          /\ clock' = clock + 1 + d
          /\ slow' = IF d > 0 THEN slow + 1 ELSE slow
    /\ pc' = "loop_top"
    /\ UNCHANGED << cfgv, rain_call, now, schedv, cachev, browserv, epd_mode,
                    ev, sf_call,
                    fetched_at, toggled, endv, ticks >>

\* where Ctrl-C arrives: in time.sleep(1), where the loop waits, and in the
\* render that follows a toggle
InterruptPcs == {"rotate_render", "sleep"}

\* lines 515-516
Interrupt ==
    /\ pc \in InterruptPcs
    /\ pc' = "finally"
    /\ UNCHANGED << cfgv, rain_call, clock, now, schedv, cachev, browserv,
                    epd_mode, ev,
                    sf_call, fetched_at, toggled, endv, ticks, slow >>

\* what driver.quit() and epd.sleep() do: return, raise an Exception, or be
\* interrupted by Ctrl-C
EndOutcomes == {"ok", "exc", "kbd"}

\* lines 521-526
Teardown ==
    /\ pc = "finally"
    /\ LET driver == Get(mvv_state, "driver", 0)
       IN  IF driver # 0
           THEN \E o \in EndOutcomes :
                  /\ had_driver' = TRUE
                  /\ quit_calls' = quit_calls + 1
                  /\ live' = IF o = "ok" THEN live \ {driver} ELSE live
                  /\ pc' = IF o = "kbd" THEN "crashed" ELSE "epd_sleep"
           ELSE /\ UNCHANGED << had_driver, quit_calls, live >>
                /\ pc' = "epd_sleep"
    /\ UNCHANGED << cfgv, rain_call, clock, now, schedv, cachev, mvv_state,
                    started, epd_mode,
                    ev, sf_call, fetched_at, toggled, sleep_calls, ticks, slow >>

\* lines 527-530
DisplaySleep ==
    /\ pc = "epd_sleep"
    /\ \E o \in EndOutcomes :
          /\ sleep_calls' = sleep_calls + 1
          /\ epd_mode' = IF o = "ok" THEN "asleep" ELSE epd_mode
          /\ pc' = IF o = "kbd" THEN "crashed" ELSE "done"
    /\ UNCHANGED << cfgv, rain_call, clock, now, schedv, cachev, browserv,
                    ev, sf_call,
                    fetched_at, toggled, quit_calls, had_driver, ticks, slow >>

Next ==
    \/ InitDisplay
    \/ InitWeather
    \/ InitRain
    \/ InitRender
    \/ InitInterrupt
    \/ LoopTop
    \/ RotateToggle
    \/ RotateRender
    \/ RefreshWeather
    \/ RefreshRain
    \/ RefreshMvv
    \/ FullRefresh
    \/ Sleep
    \/ Interrupt
    \/ Teardown
    \/ DisplaySleep

Spec == Init /\ [][Next]_vars

----------------------------------------------------------------------------
(* fetch_rain_eta on its own: one call on a forecast the API may return *)

\* the API's 15-minute grid
Stamps == [i \in 1..MaxBuckets |-> 900 * i]
\* time.time() at the call: before, on and after a bucket's start
Walls == {870, 900, 930, 1770, 1830, 3000}
\* a bucket's amount: null, or tenths of a millimetre
Amounts == {None, Some(0), Some(1), Some(2)}

Forecasts ==
    UNION {[times : {SubSeq(Stamps, 1, n)}, prec : [1..m -> Amounts]] :
              n \in 0..MaxBuckets, m \in 0..MaxBuckets}

RainInit ==
    /\ MVV_HTML = << >>
    /\ pace = TRUE
    /\ t0 = 0
    /\ pc = "fetch_rain_eta"
    /\ \E f \in Forecasts, w \in Walls :
          rain_call = [times |-> f.times, prec |-> f.prec, wall |-> w,
                       done |-> FALSE, eta |-> None]
    /\ Fresh

FetchRainEta ==
    /\ pc = "fetch_rain_eta"
    /\ rain_call' = [rain_call EXCEPT
                         !.done = TRUE,
                         !.eta = fetch_rain_eta(rain_call.times, rain_call.prec,
                                                rain_call.wall, RAIN_THRESHOLD_MM)]
    /\ pc' = "returned"
    /\ UNCHANGED << cfgv, clock, now, schedv, cachev, browserv, epd_mode, ev,
                    sf_call, fetched_at, toggled, endv, ticks, slow >>

RainNext == FetchRainEta

RainSpec == RainInit /\ [][RainNext]_vars

----------------------------------------------------------------------------
(* The claims *)

Last(e) == e[Len(e)]
IsFetch(e, src) == e.op = "fetch" /\ e.src = src
\* the statements of a tick that follow the rotation of lines 479-485
AfterRotate == {"wx", "rain", "mvv", "full", "sleep"}
\* the text of s before its first line break
RECURSIVE UpToBreak(_)
UpToBreak(s) ==
    IF s = << >> \/ Head(s) \in {"\n", "\r"} THEN << >>
    ELSE << Head(s) >> \o UpToBreak(Tail(s))

\* C1: in every tick in which the slide toggles, the newly active slide,
\* Weather or Transit, is rendered and pushed with a full refresh and
\* progress 0.
C1_ToggleRendersFull ==
    \A i \in DOMAIN ev :
        (ev[i].op = "toggle" /\ pc \in AfterRotate) =>
            \E j \in DOMAIN ev :
                /\ j > i
                /\ ev[j].op = "push"
                /\ ev[j].what = ev[i].to
                /\ ev[j].full
                /\ ev[j].progress = 0

\* C2: whatever Exception the fetcher raises, with whatever message,
\* safe_fetch returns (None, first line of the message) and raises nothing.
C2_SafeFetchReturnsFirstLine ==
    sf_call.fetcher.kind = "exc" =>
        /\ sf_call.result.kind = "ret"
        /\ sf_call.result.val = None
        /\ sf_call.result.err = Some(UpToBreak(sf_call.fetcher.msg))

\* C3: once the display is initialised, however main ends, epd.sleep() has
\* been called exactly once and, when the adapter holds a driver,
\* driver.quit() has been called exactly once.
C3_CleanupOnEveryExit ==
    pc \in {"done", "crashed"} =>
        /\ sleep_calls = 1
        /\ ("driver" \in DOMAIN mvv_state => quit_calls = 1)
        /\ quit_calls <= 1

\* C4: within one tick each source (weather, rain, creation of the transit
\* session, capture of the transit snapshot) is attempted at most once.
C4_OneFetchPerSourcePerTick ==
    \A src \in {"weather", "rain", "session", "capture"} :
        Cardinality({i \in DOMAIN ev : IsFetch(ev[i], src)}) <= 1

\* the time of the last attempt on source src, the start of the loop if none
LastFetch(src) == IF fetched_at[src] = None THEN t0 ELSE fetched_at[src][1]
LastTransit ==
    IF LastFetch("session") > LastFetch("capture")
    THEN LastFetch("session") ELSE LastFetch("capture")

\* C5: when the loop ticks once per second, every window of I seconds holds
\* a fetch of the source whose cadence is I: at the end of each tick the last
\* fetch of weather, rain and transit is at most WX_REFRESH, RAIN_REFRESH
\* and MVV_REFRESH seconds old.
C5_FetchEveryInterval ==
    (pace /\ pc = "sleep") =>
        /\ now - LastFetch("weather") <= WX_REFRESH
        /\ now - LastFetch("rain") <= RAIN_REFRESH
        /\ MVV_HTML # << >> => now - LastTransit <= MVV_REFRESH

\* C6: two consecutive toggles of the slide are exactly SLIDE_INTERVAL
\* seconds apart, whatever the operations in between take.
C6_ToggleExactlyEveryInterval ==
    \A i \in DOMAIN ev :
        (ev[i].op = "toggle" /\ ev[i].again) => ev[i].elapsed = SLIDE_INTERVAL

\* C7: a step of the loop that writes a last-fired timestamp (slide_started,
\* last_weather, last_rain, last_mvv, last_full) has completed the push the
\* cadence governs: the push is the last thing the tick has done.
C7_StampAfterPush ==
    [][(<< slide_started, last_weather, last_rain, last_mvv, last_full >>' #
            << slide_started, last_weather, last_rain, last_mvv, last_full >>)
        => (/\ ev' # << >>
            /\ Last(ev').op = "push"
            /\ Last(ev').done)]_vars

\* C8: when the full-refresh cadence is due at line 506, the active slide,
\* Weather or Transit, is the one rendered, and it is pushed with a full
\* refresh; when the push completes last_full is the tick's now.
C8_FullRefreshRendersActiveSlide ==
    [][(pc = "full" /\ now - last_full >= FULL_REFRESH) =>
          /\ Len(ev') > Len(ev)
          /\ Last(ev').op = "push"
          /\ Last(ev').what = slide
          /\ Last(ev').full
          /\ Last(ev').hw = IF Last(ev').done
                            THEN <<"init", "display", "init_part">>
                            ELSE <<"init", "display">>
          /\ pc' = IF Last(ev').done THEN "sleep" ELSE "finally"
          /\ Last(ev').done => last_full' = now]_vars

\* the Transit slide has just been pushed in full by the full-refresh cadence
C8_Witness ==
    /\ pc = "sleep"
    /\ slide = "mvv"
    /\ last_full = now
    /\ ticks >= 1
    /\ Last(ev).op = "push" /\ Last(ev).what = "mvv" /\ Last(ev).full

\* C9: every browser init_browser has started is the driver held in the
\* adapter's state or has been quit: no browser of a failed creation lives on.
C9_NoLeakedSession ==
    live \subseteq (IF "driver" \in DOMAIN mvv_state
                    THEN {mvv_state["driver"]} ELSE {})

\* C10: with MVV_HTML empty, every call of get_mvv_image_cached returns the
\* placeholder, init_browser is never called, no browser starts and the
\* adapter's state never holds a driver.
C10_UnconfiguredPlaceholder ==
    MVV_HTML = << >> =>
        /\ started = 0
        /\ live = {}
        /\ "driver" \notin DOMAIN mvv_state
        /\ \A i \in DOMAIN ev :
              /\ ~ IsFetch(ev[i], "session")
              /\ ev[i].op = "adapter" =>
                    (ev[i].img = "placeholder" /\ ev[i].err = Some(NotConfigured))
              /\ (ev[i].op = "push" /\ ev[i].what = "mvv") =>
                    ev[i].error = Some(NotConfigured)

\* unconfigured, the adapter has been called twice in one tick
C10_Witness ==
    /\ MVV_HTML = << >>
    /\ ticks >= 2
    /\ Cardinality({i \in DOMAIN ev : ev[i].op = "adapter"}) >= 2

\* C11: once a source has been fetched successfully, its cache (weather_data,
\* rain_eta) is the value its most recent successful fetch returned, also
\* after later fetches of the source have failed.
C11_CacheKeepsLastGood ==
    /\ last_ok.weather # None => weather_data = last_ok.weather[1]
    /\ last_ok.rain # None => rain_eta = last_ok.rain[1]

\* the last thing done is a push the display refused
DisplayFault(e) == e # << >> /\ Last(e).op = "push" /\ ~ Last(e).done
\* the adapter's return in the last call of it recorded in e
RECURSIVE LastAdapter(_)
LastAdapter(e) ==
    IF e = << >> THEN [op |-> "adapter", img |-> "none", err |-> None]
    ELSE IF Last(e).op = "adapter" THEN Last(e)
    ELSE LastAdapter(SubSeq(e, 1, Len(e) - 1))

\* C12: a fetch that fails in a tick (weather, rain, or the transit adapter
\* returning an error) does not end the tick: unless the display itself
\* refuses the push, the source's last-fired timestamp becomes the tick's now
\* and the loop goes on to its next statement, so the later cadences of the
\* tick, the next rotation and the next tick still come.
C12_FetchFailureKeepsLoop ==
    [][/\ (/\ pc = "wx" /\ slide = "weather" /\ now - last_weather >= WX_REFRESH
            /\ sf_call'.fetcher.kind = "exc")
           => (DisplayFault(ev') \/ (pc' = "rain" /\ last_weather' = now))
       /\ (/\ pc = "rain" /\ slide = "weather" /\ now - last_rain >= RAIN_REFRESH
            /\ sf_call'.fetcher.kind = "exc")
           => (DisplayFault(ev') \/ (pc' = "mvv" /\ last_rain' = now))
       /\ (/\ pc = "mvv" /\ slide = "mvv" /\ now - last_mvv >= MVV_REFRESH
            /\ LastAdapter(ev').err # None)
           => (DisplayFault(ev') \/ (pc' = "full" /\ last_mvv' = now))]_vars

\* the buckets of the call that lie at or after time.time() with an amount
\* that is not null and at least the threshold
Hits ==
    {i \in 1..Min(Len(rain_call.times), Len(rain_call.prec)) :
        /\ rain_call.times[i] >= rain_call.wall
        /\ rain_call.prec[i] # None
        /\ rain_call.prec[i][1] >= RAIN_THRESHOLD_MM}
FirstHit == CHOOSE i \in Hits : \A j \in Hits : i <= j

\* C13: fetch_rain_eta returns the whole minutes from now to the first
\* bucket, in list order, that is at or after now with a non-null amount >=
\* the threshold, and None when there is no such bucket.
C13_RainEtaFirstBucketFromNow ==
    rain_call.done =>
        rain_call.eta = IF Hits = {} THEN None
                        ELSE Some(RoundMinutes(rain_call.times[FirstHit]
                                               - rain_call.wall))

\* C14: in a tick of the loop, what has been fetched belongs to the active
\* slide (the slide after the tick's rotation): weather and rain are fetched
\* only with the Weather slide active, a transit session is created and a
\* snapshot captured only with the Transit slide active.
C14_FetchOnlyOnActiveSlide ==
    ticks >= 1 =>
        \A i \in DOMAIN ev :
            /\ (IsFetch(ev[i], "weather") \/ IsFetch(ev[i], "rain"))
                   => slide = "weather"
            /\ (\/ IsFetch(ev[i], "session") \/ IsFetch(ev[i], "navigate")
                \/ IsFetch(ev[i], "capture"))
                   => slide = "mvv"

\* a tick on the Weather slide has fetched the rain, after an earlier tick
\* captured the transit snapshot
C14_Witness ==
    /\ ticks >= 1
    /\ slide = "weather"
    /\ \E i \in DOMAIN ev : IsFetch(ev[i], "rain")
    /\ fetched_at["capture"] # None

\* the events a step has added to the tick's record
Added(old, new) ==
    IF Len(new) > Len(old) /\ SubSeq(new, 1, Len(old)) = old
    THEN SubSeq(new, Len(old) + 1, Len(new)) ELSE << >>
Has(e, src) == \E i \in DOMAIN e : IsFetch(e[i], src)

\* C15: with a transit session in the adapter's state, a tick in which the
\* snapshot cadence fires (the slide is Transit and now - last_mvv >=
\* MVV_REFRESH at line 501) has attempted a capture once the cadence has
\* fired (the re-navigation, when one is due, being part of the attempt): the
\* adapter's last_shot guard does not suppress it.
C15_CadenceAlwaysCaptures ==
    [][(/\ pc = "mvv" /\ slide = "mvv" /\ now - last_mvv >= MVV_REFRESH
        /\ "driver" \in DOMAIN mvv_state)
          => (Has(ev', "capture") \/ Has(ev', "navigate"))]_vars

\* how many navigations of the page e records
Navigations(e) == Cardinality({i \in DOMAIN e : IsFetch(e[i], "navigate")})

\* C16: a call of the adapter navigates the session's page at most once, and
\* a navigation of the page of a session that has been navigated before (the
\* navigation of init_browser included) comes more than RELOAD_INTERVAL
\* seconds after the previous one.
C16_NavigateOnlyOnSuperCadence ==
    [][Navigations(Added(ev, ev')) > 0 =>
          /\ Navigations(Added(ev, ev')) = 1
          /\ ("driver" \in DOMAIN mvv_state /\ fetched_at["navigate"] # None)
                => clock - fetched_at["navigate"][1] > RELOAD_INTERVAL]_vars

\* what the adapter returned in the step
Returned == LastAdapter(Added(ev, ev'))
\* the step has tried a capture, or a re-navigation, on a transit session
Attempted ==
    \/ Has(Added(ev, ev'), "capture")
    \/ Navigations(Added(ev, ev'))
           > (IF "driver" \in DOMAIN mvv_state THEN 0 ELSE 1)
\* the first line of a failure of the adapter, as the adapter words it
AdapterErrors == {Some(MvvPrefix \o UpToBreak(m)) : m \in MvvMsgs}

\* C17: a capture or re-navigation that fails leaves the session where it is
\* (the driver stays in the adapter's state, the same one if there was one,
\* and stays alive), makes the first line of the failure the adapter's error,
\* leaves last_shot as it was, so that the adapter's guard is still open for
\* the next call; a capture that succeeds clears the error.
C17_CaptureFailureKeepsSession ==
    [][Attempted =>
          /\ Returned.err # None =>
                /\ "driver" \in DOMAIN mvv_state'
                /\ mvv_state'["driver"] \in live'
                /\ "driver" \in DOMAIN mvv_state
                      => mvv_state'["driver"] = mvv_state["driver"]
                /\ Returned.err \in AdapterErrors
                /\ mvv_state'["err"] = Returned.err
                /\ Get(mvv_state', "last_shot", 0) = Get(mvv_state, "last_shot", 0)
                /\ clock' - Get(mvv_state', "last_shot", 0) > MVV_REFRESH
          /\ Returned.err = None =>
                /\ Has(Added(ev, ev'), "capture")
                /\ mvv_state'["err"] = None
                /\ mvv_state'["last_shot"] = clock]_vars

\* a capture has failed on a session that had captured a snapshot before: the
\* old snapshot is drawn, the error is the adapter's
C17_Witness ==
    /\ "driver" \in DOMAIN mvv_state
    /\ Has(ev, "capture")
    /\ LastAdapter(ev).img = "snapshot"
    /\ LastAdapter(ev).err # None
    /\ mvv_state["err"] = LastAdapter(ev).err

\* the pushes of the progress indicator that e records
ProgressPushes(e) == {i \in DOMAIN e : e[i].op = "push" /\ e[i].what = "progress"}

\* C18: every tick starts with a push of the progress indicator, a partial
\* one (display_Partial only), and it is the only such push of the tick; and
\* where nothing is due (the rotation, and each cadence on its slide) nothing
\* is pushed or fetched and the slide, slide_started and the last-fired
\* timestamps stay as they are, so that a tick with nothing due has done that
\* one partial push and nothing else.
C18_ProgressEveryTick ==
    /\ [](ticks >= 1 =>
            /\ ev # << >>
            /\ ProgressPushes(ev) = {1}
            /\ ~ ev[1].full
            /\ ev[1].hw = <<"display_Partial">>)
    /\ [][(\/ pc = "rotate" /\ now - slide_started < SLIDE_INTERVAL
           \/ pc = "wx" /\ ~ (slide = "weather" /\ now - last_weather >= WX_REFRESH)
           \/ pc = "rain" /\ ~ (slide = "weather" /\ now - last_rain >= RAIN_REFRESH)
           \/ pc = "mvv" /\ ~ (slide = "mvv" /\ now - last_mvv >= MVV_REFRESH)
           \/ pc = "full" /\ now - last_full < FULL_REFRESH)
          => /\ ev' = ev
             /\ fetched_at' = fetched_at
             /\ schedv' = schedv
             /\ pc' \in AfterRotate]_vars

\* a tick in which nothing was due has reached its sleep
C18_Witness ==
    /\ pc = "sleep"
    /\ ticks >= 2
    /\ Len(ev) = 1
    /\ ev[1].op = "push" /\ ev[1].what = "progress" /\ ev[1].done

\* C19: a completed push with full_refresh = true has called init, display,
\* init_part in that order and one with full_refresh = false has called
\* display_Partial only; every call of display_Partial has met the hardware
\* in partial-refresh mode, and between the pushes of the loop the hardware
\* is in that mode.
C19_PartialModeAtPartialPush ==
    /\ \A i \in DOMAIN ev :
          ev[i].op = "push" =>
             /\ (ev[i].full /\ ev[i].done)
                    => ev[i].hw = <<"init", "display", "init_part">>
             /\ ~ ev[i].full => (/\ ev[i].hw = <<"display_Partial">>
                                 /\ ev[i].before = "partial")
    /\ pc \in {"loop_top", "rotate", "rotate_render", "wx", "rain", "mvv",
                "full", "sleep"} => epd_mode = "partial"

\* in one tick a partial push has followed a completed full push
C19_Witness ==
    \E i, j \in DOMAIN ev :
        /\ i < j
        /\ ev[i].op = "push" /\ ev[i].full /\ ev[i].done
        /\ ev[j].op = "push" /\ ~ ev[j].full /\ ev[j].before = "partial"

\* the renders of the Weather slide a step has made
WeatherPushes(e) == {i \in DOMAIN e : e[i].op = "push" /\ e[i].what = "weather"}

\* C20: a render of the Weather slide is given the error of the most recent
\* weather fetch when that fetch failed, and otherwise the error of the most
\* recent rain fetch (none when that one succeeded too).
C20_WeatherErrorShown ==
    [][\A i \in WeatherPushes(Added(ev, ev')) :
          Added(ev, ev')[i].error =
              IF weather_err' # None THEN weather_err' ELSE rain_err']_vars

====
